---- MODULE Spec2Model ----
(***************************************************************************)
(* A model of qli_svg.py: the two-pass interpreter that renders a qli      *)
(* motion program as an SVG document.                                      *)
(*                                                                         *)
(*   QliSvgExtentsExecutor  first pass, computes the extents of a pattern  *)
(*   QliSvgExecutor         second pass, builds the SvgPattern             *)
(*   SvgPattern.write_svg   adds the borders and writes the document       *)
(*                                                                         *)
(* Numbers.  A complex number is a pair <<real, imag>> of integers.        *)
(* Angles are degrees and multiples of 45.  cmath.rect is the table        *)
(* below, with cos 45 = sin 45 taken as 5/7; radii are multiples of 7 so   *)
(* that every point is an integer point.  Floating-point rounding noise    *)
(* (cos(pi/2) = 6e-17) is not modelled.                                    *)
(***************************************************************************)
EXTENDS Integers, Sequences, FiniteSets, TLC

\* The longest program drawn from the command alphabet.
MaxLen == 3

(***************************************************************************)
(* Complex arithmetic on pairs.                                            *)
(***************************************************************************)
Re(z) == z[1]
Im(z) == z[2]
CAdd(a, b) == <<a[1] + b[1], a[2] + b[2]>>
CSub(a, b) == <<a[1] - b[1], a[2] - b[2]>>
CScale(k, a) == <<k * a[1], k * a[2]>>
Min(a, b) == IF a < b THEN a ELSE b
Max(a, b) == IF a > b THEN a ELSE b
Abs(a) == IF a < 0 THEN -a ELSE a

\* 7 * cos and 7 * sin of 0, 45, ..., 315 degrees.
Cos7 == <<7, 5, 0, -5, -7, -5, 0, 5>>
Sin7 == <<0, 5, 7, 5, 0, -5, -7, -5>>

\* cmath.rect(r, angle), the angle in degrees.
rect(r, deg) ==
    LET k == ((deg % 360) \div 45) + 1
    IN  <<(r * Cos7[k]) \div 7, (r * Sin7[k]) \div 7>>

(***************************************************************************)
(* The command stream.  Every command is a record of the same shape; a     *)
(* field a kind does not carry is 0.                                       *)
(***************************************************************************)
Command(kind, axes, radius, start_angle, angle_range, d1, d2) ==
    [kind |-> kind, axes |-> axes, radius |-> radius,
     start_angle |-> start_angle, angle_range |-> angle_range,
     d1 |-> d1, d2 |-> d2]

VectorMotion(axes)    == Command("VectorMotion", axes, 0, 0, 0, 0, 0)
Circle(r, sa, range)  == Command("Circle", <<0, 1>>, r, sa, range, 0, 0)
VectorPosition(a, b)  == Command("VectorPosition", <<0, 1>>, 0, 0, 0, a, b)
ClearSequence         == Command("ClearSequence", <<0, 1>>, 0, 0, 0, 0, 0)
VectorSequenceEnd     == Command("VectorSequenceEnd", <<0, 1>>, 0, 0, 0, 0, 0)
NeedleOff             == Command("NeedleOff", <<0, 1>>, 0, 0, 0, 0, 0)
NeedleOn              == Command("NeedleOn", <<0, 1>>, 0, 0, 0, 0, 0)
End                   == Command("End", <<0, 1>>, 0, 0, 0, 0, 0)

\* The (d1, d2) arguments of the Position commands of the alphabet.
Points == {<<10, 0>>, <<10, 10>>, <<-3, 4>>}

\* The (radius, start_angle, angle_range) arguments of the Arc commands.
Arcs == {<<7, 0, 450>>, <<7, 45, 360>>, <<7, 0, 90>>, <<7, 45, -90>>}

Alphabet ==
    {VectorMotion(<<1, 0>>)}
    \cup {VectorPosition(p[1], p[2]) : p \in Points}
    \cup {Circle(a[1], a[2], a[3]) : a \in Arcs}
    \cup {ClearSequence, VectorSequenceEnd, NeedleOff, NeedleOn, End}

\* All sequences over S of length exactly n.
SeqsOfLen(S, n) == [1..n -> S]

\* The tool-state round trip: [Position A, ToolOff, Position B, ToolOn,
\* Position C, End].
ToggleProgram(A, B, C) ==
    <<VectorPosition(A[1], A[2]), NeedleOff, VectorPosition(B[1], B[2]),
      NeedleOn, VectorPosition(C[1], C[2]), End>>

\* [AxisSelect(axes=(0,1)), Position(0,0), Position(10,0), Position(10,10),
\*  SequenceEnd, End].
ScenarioProgram ==
    <<VectorMotion(<<0, 1>>), VectorPosition(0, 0), VectorPosition(10, 0),
      VectorPosition(10, 10), VectorSequenceEnd, End>>

\* A pattern with extents (0,0)-(1,1): the unit square, drawn from the
\* origin.
UnitSquareProgram ==
    <<VectorPosition(1, 0), VectorPosition(1, 1), VectorPosition(0, 1),
      VectorPosition(0, 0)>>

Programs ==
    (UNION {SeqsOfLen(Alphabet, n) : n \in 0..MaxLen})
    \cup {ToggleProgram(A, B, C) : A \in Points, B \in Points, C \in Points}
    \cup {ScenarioProgram, UnitSquareProgram}

(***************************************************************************)
(* State.                                                                  *)
(***************************************************************************)
VARIABLES
    program,    \* the command stream both passes replay
    pc,         \* where the rendering is: "extents", "run", "ran", "got",
                \* "written", "rewritten"
    index,      \* the next command of the running pass (from 1)
    extents,    \* the QliSvgExtentsExecutor (QliSvgExecutor.extents)
    prev_loc,   \* history: extents.cur_loc before the last command it handled
    executor,   \* the QliSvgExecutor, its SvgPattern in executor.pattern
    params,     \* the SvgOutputParams write_svg was called with
    f,          \* the sink write_svg writes to: the chunks written, in order
    raised,     \* the exception write_svg ended with, "" when none
    floats,     \* the components svg_header hands to condition_floats, in
                \* its two groups (SpecHeader)
    conditioned \* what condition_floats returned for each group

vars == <<program, pc, index, extents, prev_loc, executor, params, f, raised,
          floats, conditioned>>

(***************************************************************************)
(* QliSvgExtentsExecutor.                                                  *)
(***************************************************************************)
\* QliSvgExtentsExecutor.__init__
ExtentsInit ==
    [axes |-> <<0, 1>>, cur_loc |-> <<0, 0>>, min_extent |-> <<0, 0>>,
     max_extent |-> <<0, 0>>, relative |-> <<0, 0>>]

\* coord: args[axes[0]] + 1j * args[axes[1]]  (axes are 0-based)
coord(ax, d1, d2) ==
    LET args == <<d1, d2>>
    IN  <<args[ax[1] + 1], args[ax[2] + 1]>>

\* new_extent with the imaginary minimum taken against the real one.
new_extent_mixed(self, loc) ==
    [self EXCEPT
        !.min_extent = <<Min(Re(loc), Re(self.min_extent)),
                         Min(Im(loc), Re(self.min_extent))>>,
        !.max_extent = <<Max(Re(loc), Re(self.max_extent)),
                         Max(Im(loc), Im(self.max_extent))>>]

\* new_extent with the minimum taken against max_extent.
new_extent_against_max(self, loc) ==
    [self EXCEPT
        !.min_extent = <<Min(Re(loc), Re(self.max_extent)),
                         Min(Im(loc), Im(self.max_extent))>>,
        !.max_extent = <<Max(Re(loc), Re(self.max_extent)),
                         Max(Im(loc), Im(self.max_extent))>>]

\* QliSvgExtentsExecutor.new_extent
new_extent(self, loc) ==
    [self EXCEPT
        !.min_extent = <<Min(Re(loc), Re(self.min_extent)),
                         Min(Im(loc), Im(self.min_extent))>>,
        !.max_extent = <<Max(Re(loc), Re(self.max_extent)),
                         Max(Im(loc), Im(self.max_extent))>>]

\* The while loop of doCircle: i counts the quarter turns after floor(saf);
\* saf is in quarter turns, eaf (ea_deg) in degrees.
RECURSIVE CircleExtents(_, _, _, _, _, _)
CircleExtents(self, r, sp, saf, ea_deg, i) ==
    IF i < 4 /\ (saf + i) * 90 < ea_deg
    THEN LET ex == rect(r, 90 * (saf + i))
         IN  CircleExtents(new_extent(self, CAdd(CSub(ex, sp), self.cur_loc)),
                           r, sp, saf, ea_deg, i + 1)
    ELSE self

\* doCircle without the loop over the quarter turns: only the chord's end
\* point is folded in.
ExtentsDoCircle_chord_only(self, command) ==
    LET r == command.radius
        sa == command.start_angle
        ea == sa + command.angle_range
        next_loc == CAdd(self.cur_loc, CSub(rect(r, ea), rect(r, sa)))
    IN  [new_extent(self, next_loc) EXCEPT !.cur_loc = next_loc]

\* QliSvgExtentsExecutor.doCircle
ExtentsDoCircle(self, command) ==
    LET r == command.radius
        sa == command.start_angle
        ea == sa + command.angle_range
        sp == rect(r, sa)
        ep == rect(r, ea)
        delta == CSub(ep, sp)
        next_loc == CAdd(self.cur_loc, delta)
        s1 == new_extent(self, next_loc)
        lo == IF ea < sa THEN ea ELSE sa
        hi == IF ea < sa THEN sa ELSE ea
        saf == lo \div 90
        s2 == CircleExtents(s1, r, sp, saf, hi, 1)
    IN  [s2 EXCEPT !.cur_loc = next_loc]

\* doVectorPosition of the extents pass without the call of new_extent.
ExtentsDoVectorPosition_no_extent(self, command) ==
    [self EXCEPT !.cur_loc = CAdd(coord(self.axes, command.d1, command.d2),
                                  self.relative)]

\* QliSvgExtentsExecutor.doVectorPosition
ExtentsDoVectorPosition(self, command) ==
    LET next_loc == CAdd(coord(self.axes, command.d1, command.d2),
                         self.relative)
    IN  [new_extent(self, next_loc) EXCEPT !.cur_loc = next_loc]

\* QliSvgExtentsExecutor.get_extents
get_extents(self) == <<self.min_extent, self.max_extent>>

\* QliSvgExtentsExecutor.doVectorMotion
ExtentsDoVectorMotion(self, command) == [self EXCEPT !.axes = command.axes]

\* QliSvgExtentsExecutor.doClearSequence
ExtentsDoClearSequence(self, command) == [self EXCEPT !.cur_loc = <<0, 0>>]

\* QliSvgExtentsExecutor.doVectorSequenceEnd
ExtentsDoVectorSequenceEnd(self, command) ==
    [self EXCEPT !.relative = self.cur_loc]

\* The handlers QliSvgExtentsExecutor does not override (doNeedleOff,
\* doNeedleOn, doEnd of qli_parser.QliExecutor): no effect on this pass.
ExtentsDoDefault(self, command) == self

(***************************************************************************)
(* Path primitives (svg.path.Move, Line, Arc).  index is history: the      *)
(* position in the program of the command that drew the primitive, 0 for   *)
(* a primitive no command drew.                                            *)
(***************************************************************************)
Move(to) ==
    [type |-> "Move", start |-> to, end |-> to, radius |-> <<0, 0>>,
     arc |-> FALSE, sweep |-> FALSE, index |-> 0]

Line(start, end, idx) ==
    [type |-> "Line", start |-> start, end |-> end, radius |-> <<0, 0>>,
     arc |-> FALSE, sweep |-> FALSE, index |-> idx]

Arc(start, radius, arc, sweep, end, idx) ==
    [type |-> "Arc", start |-> start, end |-> end, radius |-> radius,
     arc |-> arc, sweep |-> sweep, index |-> idx]

(***************************************************************************)
(* SvgPath and SvgPattern.                                                 *)
(***************************************************************************)
\* SvgPath.__init__ without the inserted move-to.
SvgPath_no_move(needle_state, path, alternate_color) ==
    [needle_state |-> needle_state, path |-> path,
     alternate_color |-> alternate_color]

\* SvgPath.__init__; alternate_color "" is None.
SvgPath(needle_state, path, alternate_color) ==
    LET first == path[1]
    IN  [needle_state |-> needle_state,
         path |-> IF first.type # "Move"
                  THEN <<Move(first.start)>> \o path
                  ELSE path,
         alternate_color |-> alternate_color]

\* SvgPattern.__init__
SvgPattern(ext) == [extents |-> ext, svg_elements |-> <<>>]

\* SvgPattern.append
PatternAppend(self, path) ==
    [self EXCEPT !.svg_elements = Append(self.svg_elements, path)]

(***************************************************************************)
(* QliSvgExecutor.                                                         *)
(***************************************************************************)
\* QliSvgExecutor.__init__, after the extents pass it runs.
ExecutorInit(ext) ==
    [axes |-> <<0, 1>>, needle_on |-> TRUE, svg_current_path |-> <<>>,
     start_loc |-> <<0, 0>>, cur_loc |-> <<0, 0>>,
     pattern |-> SvgPattern(ext), relative |-> <<0, 0>>]

\* end_path that pushes the open segment and forgets to start a new one.
end_path_no_reset(self) ==
    [self EXCEPT
        !.pattern = IF Len(self.svg_current_path) # 0
                    THEN PatternAppend(self.pattern,
                             SvgPath(self.needle_on, self.svg_current_path, ""))
                    ELSE self.pattern]

\* QliSvgExecutor.end_path
end_path(self) ==
    [self EXCEPT
        !.pattern = IF Len(self.svg_current_path) # 0
                    THEN PatternAppend(self.pattern,
                             SvgPath(self.needle_on, self.svg_current_path, ""))
                    ELSE self.pattern,
        !.svg_current_path = <<>>]

\* set_needle that updates the tool state first and flushes afterwards.
set_needle_state_first(self, state) ==
    IF self.needle_on # state
    THEN end_path([self EXCEPT !.needle_on = state])
    ELSE self

\* set_needle without the flush: the state changes and the open segment
\* runs on.
set_needle_no_flush(self, state) == [self EXCEPT !.needle_on = state]

\* set_needle that flushes whether or not the state changes.
set_needle_always_flush(self, state) ==
    [end_path(self) EXCEPT !.needle_on = state]

\* QliSvgExecutor.set_needle
set_needle(self, state) ==
    LET flushed == IF self.needle_on # state THEN end_path(self) ELSE self
    IN  [flushed EXCEPT !.needle_on = state]

\* doVectorMotion that leaves the axis mapping as it is.
DoVectorMotion_ignored(self, i, command) == self

\* QliSvgExecutor.doVectorMotion
DoVectorMotion(self, i, command) == [self EXCEPT !.axes = command.axes]

\* QliSvgExecutor.doCircle
DoCircle(self, i, command) ==
    LET r == command.radius
        sa == command.start_angle
        ea == sa + command.angle_range
        sp == rect(r, sa)
        ep == rect(r, ea)
        delta == CSub(ep, sp)
        next_loc == CAdd(self.cur_loc, delta)
        mod_angle == Abs(command.angle_range) % 360
        large_arc == mod_angle > 180
        sweep == command.angle_range > 0
        arc == Arc(self.cur_loc, <<r, r>>, large_arc, sweep, next_loc, i)
    IN  [self EXCEPT
            !.svg_current_path = Append(self.svg_current_path, arc),
            !.cur_loc = next_loc]

\* doVectorPosition that forgets to move the current location.
DoVectorPosition_no_update(self, i, command) ==
    LET next_loc == CAdd(coord(self.axes, command.d1, command.d2),
                         self.relative)
        line == Line(self.cur_loc, next_loc, i)
    IN  [self EXCEPT
            !.svg_current_path = Append(self.svg_current_path, line)]

\* QliSvgExecutor.doVectorPosition
DoVectorPosition(self, i, command) ==
    LET next_loc == CAdd(coord(self.axes, command.d1, command.d2),
                         self.relative)
        line == Line(self.cur_loc, next_loc, i)
    IN  [self EXCEPT
            !.svg_current_path = Append(self.svg_current_path, line),
            !.cur_loc = next_loc]

\* doVectorSequenceEnd that flushes and leaves the relative origin alone.
DoVectorSequenceEnd_flush_only(self, i, command) == end_path(self)

\* QliSvgExecutor.doVectorSequenceEnd
DoVectorSequenceEnd(self, i, command) ==
    LET flushed == end_path(self)
    IN  [flushed EXCEPT !.relative = flushed.cur_loc]

\* doClearSequence that flushes the open segment before it resets the
\* location.
DoClearSequence_flush(self, i, command) ==
    [end_path(self) EXCEPT !.cur_loc = self.start_loc]

\* QliSvgExecutor.doClearSequence
DoClearSequence(self, i, command) == [self EXCEPT !.cur_loc = self.start_loc]

\* QliSvgExecutor.doNeedleOff
DoNeedleOff(self, i, command) == set_needle(self, FALSE)

\* QliSvgExecutor.doNeedleOn
DoNeedleOn(self, i, command) == set_needle(self, TRUE)

\* doEnd that discards the open segment.
DoEnd_discard(self, i, command) == [self EXCEPT !.svg_current_path = <<>>]

\* QliSvgExecutor.doEnd
DoEnd(self, i, command) == end_path(self)

(***************************************************************************)
(* Rational numbers <<numerator, denominator>> in lowest terms with a      *)
(* positive denominator: the floats of the document header (the scale is   *)
(* width / pattern_size.real).  The header's %0.8g formatting is not       *)
(* modelled: a header field is the exact value.                            *)
(***************************************************************************)
RECURSIVE GCD(_, _)
GCD(a, b) == IF b = 0 THEN a ELSE GCD(b, a % b)

\* n / d in lowest terms, d # 0.
Rat(n, d) ==
    IF n = 0 THEN <<0, 1>>
    ELSE IF d = 1 THEN <<n, 1>>
    ELSE CHOOSE q \in {<<(sgn * n) \div g, (sgn * d) \div g>> :
                          g \in {GCD(Abs(n), Abs(d))},
                          sgn \in {IF d < 0 THEN -1 ELSE 1}} : TRUE

RInt(k) == <<k, 1>>
RAdd(a, b) == Rat(a[1] * b[2] + b[1] * a[2], a[2] * b[2])
RSub(a, b) == Rat(a[1] * b[2] - b[1] * a[2], a[2] * b[2])
RMul(a, b) == Rat(a[1] * b[1], a[2] * b[2])
RDiv(a, b) == Rat(a[1] * b[2], a[2] * b[1])
RNeg(a) == <<-a[1], a[2]>>
RAbs(a) == <<Abs(a[1]), a[2]>>
RLess(a, b) == a[1] * b[2] < b[1] * a[2]
RMax(a, b) == IF RLess(a, b) THEN b ELSE a

\* A complex number with rational parts, from one with integer parts.
RComplex(z) == <<RInt(z[1]), RInt(z[2])>>

\* EPLSILON = 1.e-6
EPLSILON == <<1, 1000000>>

\* abs(v) / epsilon < max_abs for v, max_abs >= 0 and epsilon = 1/q, without
\* forming the quotient (q is large; the product would leave 32 bits):
\* a * q < b  iff  b > 0 and a <= (b - 1) div q.
QuotientLess(v, epsilon, max_abs) ==
    LET a == v[1] * max_abs[2]
        b == max_abs[1] * v[2]
    IN  b > 0 /\ a <= (b - 1) \div epsilon[2]

\* condition_floats, on the values of kwds in order.
condition_floats(epsilon, kwds) ==
    LET RECURSIVE MaxAbs(_, _)
        MaxAbs(acc, k) ==
            IF k > Len(kwds) THEN acc
            ELSE MaxAbs(RMax(acc, RAbs(kwds[k])), k + 1)
        max_abs == MaxAbs(RInt(0), 1)
    IN  [k \in 1..Len(kwds) |->
            IF QuotientLess(RAbs(kwds[k]), epsilon, max_abs)
            THEN RInt(0)
            ELSE kwds[k]]

\* The two calls of condition_floats in svg_header: m00, m10, m01, m11 are
\* one group of keywords, translatex and translatey another.
condition_matrix(m) == condition_floats(EPLSILON, m)

\* The second call given the matrix components along with the translation.
condition_translation_with_matrix(t) ==
    SubSeq(condition_floats(EPLSILON, floats.m \o t), 5, 6)

condition_translation(t) == condition_floats(EPLSILON, t)

\* No components: nothing handed to condition_floats, nothing returned.
NoFloats == [m |-> <<>>, t |-> <<>>]

\* 3x3 matrices of rationals, rows first.
MatCell(A, B, i, j) ==
    RAdd(RAdd(RMul(A[i][1], B[1][j]), RMul(A[i][2], B[2][j])),
         RMul(A[i][3], B[3][j]))

\* A @ B
MatMul(A, B) ==
    <<<<MatCell(A, B, 1, 1), MatCell(A, B, 1, 2), MatCell(A, B, 1, 3)>>,
      <<MatCell(A, B, 2, 1), MatCell(A, B, 2, 2), MatCell(A, B, 2, 3)>>,
      <<MatCell(A, B, 3, 1), MatCell(A, B, 3, 2), MatCell(A, B, 3, 3)>>>>

\* The product of the matrices of ms, from the left: ms[1] @ ... @ ms[n].
\* Each product is bound to its value before the next one uses it.
RECURSIVE MatChain(_, _, _)
MatChain(acc, ms, k) ==
    IF k > Len(ms) THEN acc
    ELSE CHOOSE M \in {MatChain(MatMul(a, b), ms, k + 1) :
                          a \in {acc}, b \in {ms[k]}} : TRUE

\* mat_rot
mat_rot(rotation) ==
    <<<<rotation[1], RNeg(rotation[2]), RInt(0)>>,
      <<rotation[2], rotation[1], RInt(0)>>,
      <<RInt(0), RInt(0), RInt(1)>>>>

\* mat_scale
mat_scale(scale) ==
    <<<<scale[1], RInt(0), RInt(0)>>,
      <<RInt(0), scale[2], RInt(0)>>,
      <<RInt(0), RInt(0), RInt(1)>>>>

\* mat_trans
mat_trans(translation) ==
    <<<<RInt(1), RInt(0), translation[1]>>,
      <<RInt(0), RInt(1), translation[2]>>,
      <<RInt(0), RInt(0), RInt(1)>>>>

\* svg_header: the header chunk; size, scale and rotation have rational
\* parts, extents integer parts.
svg_header(size, scale, rotation, ext) ==
    LET half == <<1, 2>>
        centre == <<RAdd(RInt(Re(ext[1])), RMul(RInt(Re(ext[2]) - Re(ext[1])), half)),
                    RAdd(RInt(Im(ext[1])), RMul(RInt(Im(ext[2]) - Im(ext[1])), half))>>
        factors == <<mat_rot(rotation),
                     mat_scale(<<RInt(-1), RInt(1)>>),
                     mat_scale(scale),
                     mat_trans(<<RNeg(centre[1]), RNeg(centre[2])>>)>>
        first == mat_trans(<<RMul(size[1], half), RMul(size[2], half)>>)
    IN  CHOOSE header \in
            {[chunk |-> "header", width |-> size[1], height |-> size[2],
              m00 |-> m[1], m10 |-> m[2], m01 |-> m[3], m11 |-> m[4],
              translatex |-> t[1], translatey |-> t[2]] :
                 <<m, t>> \in
                    {<<condition_matrix(
                          <<result_mat[1][1], result_mat[1][2],
                            result_mat[2][1], result_mat[2][2]>>),
                       condition_translation(
                          <<result_mat[1][3], result_mat[2][3]>>)>> :
                        result_mat \in {MatChain(first, factors, 1)}}} : TRUE

(***************************************************************************)
(* SvgOutputParams, SvgOutContext and the document writer.                 *)
(***************************************************************************)
BorderSpec(color, border_margin) ==
    [color |-> color, border_margin |-> border_margin]

\* SvgOutputParams with its default values.
DefaultParams ==
    [oncolor |-> "black", offcolor |-> "red", line_width |-> 1,
     margin |-> <<50, 50>>, width |-> 700,
     borders |-> <<BorderSpec("blue", 1)>>]

\* The styles write_svg is called with: the default, one with two borders,
\* and a bare one (width 100, no margin, no border).
Styles ==
    {DefaultParams,
     [DefaultParams EXCEPT
        !.borders = <<BorderSpec("blue", 1), BorderSpec("green", 2)>>],
     [DefaultParams EXCEPT
        !.margin = <<0, 0>>, !.width = 100, !.borders = <<>>]}

\* math.ceil(n * p / q) for integers n >= 0, p, q > 0 (the float products
\* n * 0.02 and n * 0.001 round to the same ceiling for every n below 3000).
CeilMul(n, p, q) == (n * p + (q - 1)) \div q

\* SvgOutContext.__init__
SvgOutContext(pattern, style) ==
    LET ext == pattern.extents
        size == CSub(ext[2], ext[1])
    IN  [params |-> style,
         bounding_box_delta |->
             CScale(CeilMul(Re(size) + Im(size), 2, 100), <<1, 1>>),
         line_width |->
             CeilMul(Re(size) + Im(size), 1, 1000) * style.line_width]

\* SvgPattern.add_bounding_box
add_bounding_box(self, color, offset) ==
    LET e0 == CSub(self.extents[1], offset)
        e1 == CAdd(self.extents[2], offset)
        box == <<Line(e0, <<Re(e0), Im(e1)>>, 0),
                 Line(<<Re(e0), Im(e1)>>, e1, 0),
                 Line(e1, <<Re(e1), Im(e0)>>, 0),
                 Line(<<Re(e1), Im(e0)>>, e0, 0)>>
    IN  PatternAppend(self, SvgPath(FALSE, box, color))

\* SvgPath.svg: the path chunk (svg_path of path.d(), the colour and the
\* stroke width); path.d() is svg.path's and is kept as the primitives.
SvgPathSvg(self, context) ==
    LET style == context.params
        color == IF self.alternate_color # ""
                 THEN self.alternate_color
                 ELSE IF self.needle_state THEN style.oncolor
                      ELSE style.offcolor
    IN  [chunk |-> "path", path |-> self.path, color |-> color,
         stroke_width |-> context.line_width]

\* SVG_FOOTER
SvgFooter == [chunk |-> "footer"]

\* SvgPattern.write with the margin added once to the canvas, not twice.
PatternWrite_single_margin(self, sink, context) ==
    LET pattern_size == CSub(self.extents[2], self.extents[1])
        sizex == RInt(context.params.width)
    IN  IF Re(pattern_size) = 0
        THEN [f |-> sink, raised |-> "ZeroDivisionError"]
        ELSE
        LET scale == RDiv(sizex, RInt(Re(pattern_size)))
            sizey == RMul(scale, RInt(Im(pattern_size)))
            margin == context.params.margin
            overall_size == <<RAdd(sizex, RInt(margin[1])),
                              RAdd(sizey, RInt(margin[2]))>>
            header == svg_header(overall_size, <<scale, scale>>,
                                 RComplex(rect(1, 180)), self.extents)
            elems == [k \in 1..Len(self.svg_elements) |->
                          SvgPathSvg(self.svg_elements[k], context)]
        IN  [f |-> sink \o <<header>> \o elems \o <<SvgFooter>>,
             raised |-> ""]

\* SvgPattern.write: what the sink holds afterwards and the exception
\* raised.  sizex / pattern_size.real is a float division: it raises
\* ZeroDivisionError on 0.0, before anything is written.
PatternWrite(self, sink, context) ==
    LET pattern_size == CSub(self.extents[2], self.extents[1])
        sizex == RInt(context.params.width)
    IN  IF Re(pattern_size) = 0
        THEN [f |-> sink, raised |-> "ZeroDivisionError"]
        ELSE
        LET scale == RDiv(sizex, RInt(Re(pattern_size)))
            sizey == RMul(scale, RInt(Im(pattern_size)))
            margin == context.params.margin
            overall_size == <<RAdd(sizex, RInt(2 * margin[1])),
                              RAdd(sizey, RInt(2 * margin[2]))>>
            header == svg_header(overall_size, <<scale, scale>>,
                                 RComplex(rect(1, 180)), self.extents)
            elems == [k \in 1..Len(self.svg_elements) |->
                          SvgPathSvg(self.svg_elements[k], context)]
        IN  [f |-> sink \o <<header>> \o elems \o <<SvgFooter>>,
             raised |-> ""]

\* The loop of write_svg over params.borders, from border k on.
RECURSIVE AddBorders(_, _, _, _)
AddBorders(self, borders, context, k) ==
    IF k > Len(borders) THEN self
    ELSE AddBorders(
             add_bounding_box(self, borders[k].color,
                 CScale(borders[k].border_margin, context.bounding_box_delta)),
             borders, context, k + 1)

\* SvgPattern.write_svg: the pattern, the sink and the exception afterwards.
write_svg(self, sink, style) ==
    LET context == SvgOutContext(self, style)
        bordered == AddBorders(self, style.borders, context, 1)
        written == PatternWrite(bordered, sink, context)
    IN  [pattern |-> bordered, f |-> written.f, raised |-> written.raised]

(***************************************************************************)
(* The rendering: QliSvgExecutor(program) runs the extents pass, run()     *)
(* replays the program into the pattern, get_svg_patttern() hands the      *)
(* pattern out and write_svg writes it.  program.execute(visitor) calls    *)
(* the visitor's handler of each command, in order.                        *)
(***************************************************************************)
Init ==
    /\ program \in Programs
    /\ pc = "extents"
    /\ index = 1
    /\ extents = ExtentsInit
    /\ prev_loc = <<0, 0>>
    /\ executor = ExecutorInit(<<<<0, 0>>, <<0, 0>>>>)
    /\ params = DefaultParams
    /\ f = <<>>
    /\ raised = ""
    /\ floats = NoFloats
    /\ conditioned = NoFloats

\* program.execute(self.extents) is at a command of this kind.
AtExtents(kind) ==
    /\ pc = "extents"
    /\ index <= Len(program)
    /\ program[index].kind = kind

\* What every handler call of the extents pass leaves behind it.
ExtentsAdvance ==
    /\ prev_loc' = extents.cur_loc
    /\ index' = index + 1
    /\ UNCHANGED <<program, pc, executor, params, f, raised, floats, conditioned>>

ExtentsVectorMotion ==
    /\ AtExtents("VectorMotion")
    /\ extents' = ExtentsDoVectorMotion(extents, program[index])
    /\ ExtentsAdvance

ExtentsCircle ==
    /\ AtExtents("Circle")
    /\ extents' = ExtentsDoCircle(extents, program[index])
    /\ ExtentsAdvance

ExtentsVectorPosition ==
    /\ AtExtents("VectorPosition")
    /\ extents' = ExtentsDoVectorPosition(extents, program[index])
    /\ ExtentsAdvance

ExtentsClearSequence ==
    /\ AtExtents("ClearSequence")
    /\ extents' = ExtentsDoClearSequence(extents, program[index])
    /\ ExtentsAdvance

ExtentsVectorSequenceEnd ==
    /\ AtExtents("VectorSequenceEnd")
    /\ extents' = ExtentsDoVectorSequenceEnd(extents, program[index])
    /\ ExtentsAdvance

ExtentsNeedleOff ==
    /\ AtExtents("NeedleOff")
    /\ extents' = ExtentsDoDefault(extents, program[index])
    /\ ExtentsAdvance

ExtentsNeedleOn ==
    /\ AtExtents("NeedleOn")
    /\ extents' = ExtentsDoDefault(extents, program[index])
    /\ ExtentsAdvance

ExtentsEnd ==
    /\ AtExtents("End")
    /\ extents' = ExtentsDoDefault(extents, program[index])
    /\ ExtentsAdvance

\* The rest of QliSvgExecutor.__init__ once the extents pass is over.
Construct ==
    /\ pc = "extents"
    /\ index > Len(program)
    /\ executor' = ExecutorInit(get_extents(extents))
    /\ pc' = "run"
    /\ index' = 1
    /\ UNCHANGED <<program, extents, prev_loc, params, f, raised, floats, conditioned>>

\* run()'s program.execute(self) is at a command of this kind.
AtRun(kind) ==
    /\ pc = "run"
    /\ index <= Len(program)
    /\ program[index].kind = kind

\* What every handler call of run() leaves behind it.
RunAdvance ==
    /\ index' = index + 1
    /\ UNCHANGED <<program, pc, extents, prev_loc, params, f, raised, floats, conditioned>>

RunVectorMotion ==
    /\ AtRun("VectorMotion")
    /\ executor' = DoVectorMotion(executor, index, program[index])
    /\ RunAdvance

RunCircle ==
    /\ AtRun("Circle")
    /\ executor' = DoCircle(executor, index, program[index])
    /\ RunAdvance

RunVectorPosition ==
    /\ AtRun("VectorPosition")
    /\ executor' = DoVectorPosition(executor, index, program[index])
    /\ RunAdvance

RunClearSequence ==
    /\ AtRun("ClearSequence")
    /\ executor' = DoClearSequence(executor, index, program[index])
    /\ RunAdvance

RunVectorSequenceEnd ==
    /\ AtRun("VectorSequenceEnd")
    /\ executor' = DoVectorSequenceEnd(executor, index, program[index])
    /\ RunAdvance

RunNeedleOff ==
    /\ AtRun("NeedleOff")
    /\ executor' = DoNeedleOff(executor, index, program[index])
    /\ RunAdvance

RunNeedleOn ==
    /\ AtRun("NeedleOn")
    /\ executor' = DoNeedleOn(executor, index, program[index])
    /\ RunAdvance

RunEnd ==
    /\ AtRun("End")
    /\ executor' = DoEnd(executor, index, program[index])
    /\ RunAdvance

\* The end_path() that ends run().
RunEndPath ==
    /\ pc = "run"
    /\ index > Len(program)
    /\ executor' = end_path(executor)
    /\ pc' = "ran"
    /\ UNCHANGED <<program, index, extents, prev_loc, params, f, raised, floats, conditioned>>

\* QliSvgExecutor.get_svg_patttern
GetSvgPattern ==
    /\ pc = "ran"
    /\ executor' = end_path(executor)
    /\ pc' = "got"
    /\ UNCHANGED <<program, index, extents, prev_loc, params, f, raised, floats, conditioned>>

\* The handler of the extents pass that program.execute calls for a command.
ExtentsHandle(self, command) ==
    CASE command.kind = "VectorMotion" -> ExtentsDoVectorMotion(self, command)
      [] command.kind = "Circle" -> ExtentsDoCircle(self, command)
      [] command.kind = "VectorPosition" -> ExtentsDoVectorPosition(self, command)
      [] command.kind = "ClearSequence" -> ExtentsDoClearSequence(self, command)
      [] command.kind = "VectorSequenceEnd" ->
             ExtentsDoVectorSequenceEnd(self, command)
      [] OTHER -> ExtentsDoDefault(self, command)

\* program.execute(self.extents) from command k on.
RECURSIVE ExtentsExecute(_, _, _)
ExtentsExecute(self, prog, k) ==
    IF k > Len(prog) THEN self
    ELSE CHOOSE done \in {ExtentsExecute(next, prog, k + 1) :
                             next \in {ExtentsHandle(self, prog[k])}} : TRUE

\* The handler of QliSvgExecutor that program.execute calls for a command.
Handle(self, i, command) ==
    CASE command.kind = "VectorMotion" -> DoVectorMotion(self, i, command)
      [] command.kind = "Circle" -> DoCircle(self, i, command)
      [] command.kind = "VectorPosition" -> DoVectorPosition(self, i, command)
      [] command.kind = "ClearSequence" -> DoClearSequence(self, i, command)
      [] command.kind = "VectorSequenceEnd" ->
             DoVectorSequenceEnd(self, i, command)
      [] command.kind = "NeedleOff" -> DoNeedleOff(self, i, command)
      [] command.kind = "NeedleOn" -> DoNeedleOn(self, i, command)
      [] command.kind = "End" -> DoEnd(self, i, command)

\* program.execute(self) from command k on.
RECURSIVE Execute(_, _, _)
Execute(self, prog, k) ==
    IF k > Len(prog) THEN self
    ELSE CHOOSE done \in {Execute(next, prog, k + 1) :
                             next \in {Handle(self, k, prog[k])}} : TRUE

\* A rendering that constructs no new QliSvgExecutor: run(),
\* get_svg_patttern() and write_svg(sink, style) on the executor at hand.
Render_same_executor(prog, style) ==
    CHOOSE rendering \in
        {[extents |-> extents,
          executor |-> [got EXCEPT !.pattern = written.pattern],
          f |-> written.f,
          raised |-> written.raised] :
             <<got, written>> \in
                {<<g, write_svg(g.pattern, <<>>, style)>> :
                    g \in {end_path(end_path(Execute(executor, prog, 1)))}}} : TRUE

\* A whole rendering of a program into a new sink: QliSvgExecutor(prog),
\* run(), get_svg_patttern() and write_svg(sink, style).
Render(prog, style) ==
    CHOOSE rendering \in
        {[extents |-> ext,
          executor |-> [got EXCEPT !.pattern = written.pattern],
          f |-> written.f,
          raised |-> written.raised] :
             <<ext, got, written>> \in
                {<<e, g, write_svg(g.pattern, <<>>, style)>> :
                    <<e, g>> \in
                       {<<e2, end_path(end_path(Execute(
                                  ExecutorInit(get_extents(e2)), prog, 1)))>> :
                           e2 \in {ExtentsExecute(ExtentsInit, prog, 1)}}}} : TRUE

\* pattern.write_svg(f, params) on the pattern get_svg_patttern returned.
WriteSvg ==
    /\ pc = "got"
    /\ \E style \in Styles :
          \E r \in {write_svg(executor.pattern, f, style)} :
              /\ executor' = [executor EXCEPT !.pattern = r.pattern]
              /\ params' = style
              /\ f' = r.f
              /\ raised' = r.raised
    /\ pc' = "written"
    /\ UNCHANGED <<program, index, extents, prev_loc, floats, conditioned>>

\* The same program rendered once more with the same style: a new
\* QliSvgExecutor, a new pattern and a new sink take the place of the first.
Rerender ==
    /\ pc = "written"
    /\ \E r \in {Render(program, params)} :
          /\ extents' = r.extents
          /\ executor' = r.executor
          /\ f' = r.f
          /\ raised' = r.raised
    /\ pc' = "rewritten"
    /\ UNCHANGED <<program, index, prev_loc, params, floats, conditioned>>

Next ==
    \/ ExtentsVectorMotion
    \/ ExtentsCircle
    \/ ExtentsVectorPosition
    \/ ExtentsClearSequence
    \/ ExtentsVectorSequenceEnd
    \/ ExtentsNeedleOff
    \/ ExtentsNeedleOn
    \/ ExtentsEnd
    \/ Construct
    \/ RunVectorMotion
    \/ RunCircle
    \/ RunVectorPosition
    \/ RunClearSequence
    \/ RunVectorSequenceEnd
    \/ RunNeedleOff
    \/ RunNeedleOn
    \/ RunEnd
    \/ RunEndPath
    \/ GetSvgPattern
    \/ WriteSvg
    \/ Rerender

(***************************************************************************)
(* condition_floats on its own: svg_header's two calls on components drawn *)
(* from the values below, the matrix group first.                          *)
(***************************************************************************)
\* Components: 0, 1, -2, 1e-9, -1e-6, 1e-3.
Components ==
    {<<0, 1>>, <<1, 1>>, <<-2, 1>>, <<1, 1000000000>>, <<-1, 1000000>>,
     <<1, 1000>>}

\* Translations: 0, 1, 1e-9.
Translations == {<<0, 1>>, <<1, 1>>, <<1, 1000000000>>}

InitHeader ==
    /\ floats \in [m : [1..4 -> Components], t : [1..2 -> Translations]]
    /\ conditioned = NoFloats
    /\ pc = "header"
    /\ program = <<>>
    /\ index = 1
    /\ extents = ExtentsInit
    /\ prev_loc = <<0, 0>>
    /\ executor = ExecutorInit(<<<<0, 0>>, <<0, 0>>>>)
    /\ params = DefaultParams
    /\ f = <<>>
    /\ raised = ""

\* condition_floats(m00=..., m10=..., m01=..., m11=...)
ConditionMatrix ==
    /\ pc = "header"
    /\ conditioned' = [conditioned EXCEPT !.m = condition_matrix(floats.m)]
    /\ pc' = "matrix"
    /\ UNCHANGED <<program, index, extents, prev_loc, executor, params, f,
                   raised, floats>>

\* condition_floats(translatex=..., translatey=...)
ConditionTranslation ==
    /\ pc = "matrix"
    /\ conditioned' = [conditioned EXCEPT !.t = condition_translation(floats.t)]
    /\ pc' = "translation"
    /\ UNCHANGED <<program, index, extents, prev_loc, executor, params, f,
                   raised, floats>>

NextHeader ==
    \/ ConditionMatrix
    \/ ConditionTranslation

SpecHeader == InitHeader /\ [][NextHeader]_vars

Spec == Init /\ [][Next]_vars

(***************************************************************************)
(* Claims.                                                                 *)
(***************************************************************************)
\* The PathSegments the Path Builder has pushed into the Pattern.
Segments == executor.pattern.svg_elements

\* The program is [Position A, ToolOff, Position B, ToolOn, Position C, End].
IsToggleProgram ==
    \E A \in Points, B \in Points, C \in Points :
        program = ToggleProgram(A, B, C)

\* The segment is a move-to followed by the one line command i drew.
MoveThenLine(seg, i) ==
    /\ Len(seg.path) = 2
    /\ seg.path[1].type = "Move"
    /\ seg.path[2].type = "Line"
    /\ seg.path[2].index = i
    /\ seg.path[1].end = seg.path[2].start

\* C1, as stated: run() on [Position A, ToolOff, Position B, ToolOn,
\* Position C, End] leaves exactly two PathSegments in the Pattern, each
\* beginning with a move-to.
C1_TwoSegments ==
    (IsToggleProgram /\ pc = "ran") =>
        /\ Len(Segments) = 2
        /\ \A k \in 1..Len(Segments) : Segments[k].path[1].type = "Move"

\* C1, amended: run() on [Position A, ToolOff, Position B, ToolOn,
\* Position C, End] leaves exactly three PathSegments in the Pattern, one
\* per Position, split at both tool toggles and tagged on, off, on; each is
\* a move-to to the start of its line followed by that line, and each line
\* starts where the previous Position ended (the first at location 0).
C1_ThreeSegments ==
    (IsToggleProgram /\ pc = "ran") =>
        /\ Len(Segments) = 3
        /\ Segments[1].needle_state = TRUE
        /\ Segments[2].needle_state = FALSE
        /\ Segments[3].needle_state = TRUE
        /\ \A k \in 1..3 : MoveThenLine(Segments[k], 2 * k - 1)
        /\ Segments[1].path[2].start = <<0, 0>>
        /\ Segments[2].path[2].start = Segments[1].path[2].end
        /\ Segments[3].path[2].start = Segments[2].path[2].end
        /\ executor.svg_current_path = <<>>

\* C1 witness: run() has finished on a toggle program with three distinct
\* points.
C1_Witness ==
    /\ pc = "ran"
    /\ program = ToggleProgram(<<10, 0>>, <<10, 10>>, <<-3, 4>>)
    /\ Len(Segments) = 3

\* A segment add_bounding_box made (it carries the border's colour).
IsBorder(seg) == seg.alternate_color # ""

\* C2, as stated: once write_svg has applied the borders, every border
\* segment comes before every stroke segment in the Pattern's segment list.
C2_BordersFirst ==
    pc = "written" =>
        \A i \in 1..Len(Segments), j \in 1..Len(Segments) :
            (IsBorder(Segments[i]) /\ ~IsBorder(Segments[j])) => i < j

\* The point lies in the bounding box of the Extent Tracker.
InBox(pt, self) ==
    /\ Re(self.min_extent) <= Re(pt) /\ Re(pt) <= Re(self.max_extent)
    /\ Im(self.min_extent) <= Im(pt) /\ Im(pt) <= Im(self.max_extent)

\* The Extent Tracker has just handled a command of this kind.
ExtentsHandled(kind) ==
    /\ pc = "extents"
    /\ index > 1
    /\ program[index - 1].kind = kind

\* C3, as stated: after the Extent Tracker handles an Arc, every multiple
\* of 90 degrees strictly between the arc's start angle and end angle has
\* its point on the circle (offset like the chord: minus the start point,
\* plus the location before the arc) inside the running min/max.
C3_QuarterTurnsFolded ==
    ExtentsHandled("Circle") =>
        LET command == program[index - 1]
            sa == command.start_angle
            ea == sa + command.angle_range
            lo == Min(sa, ea)
            hi == Max(sa, ea)
            sp == rect(command.radius, sa)
        IN  \A q \in (lo \div 90)..(hi \div 90 + 1) :
                (lo < 90 * q /\ 90 * q < hi) =>
                    InBox(CAdd(CSub(rect(command.radius, 90 * q), sp),
                               prev_loc), extents)

\* The commands the Extent Tracker has handled are all Position commands.
OnlyPositions ==
    \A k \in 1..(index - 1) : program[k].kind = "VectorPosition"

\* The vertices of the Position commands handled, and the origin.
Vertices ==
    {<<program[k].d1, program[k].d2>> : k \in 1..(index - 1)}
    \cup {<<0, 0>>}

Lowest(S) == CHOOSE x \in S : \A y \in S : x <= y
Highest(S) == CHOOSE x \in S : \A y \in S : x >= y

\* C4: when the stream the Extent Tracker has replayed consists solely of
\* Position commands, the bounding box it returns is the componentwise
\* minimum and maximum over the Position vertices together with the origin.
C4_PositionsBox ==
    (pc = "extents" /\ OnlyPositions) =>
        get_extents(extents) =
            <<<<Lowest({Re(v) : v \in Vertices}),
                Lowest({Im(v) : v \in Vertices})>>,
              <<Highest({Re(v) : v \in Vertices}),
                Highest({Im(v) : v \in Vertices})>>>>

\* C4 witness: the whole of a three-Position stream has been replayed and
\* the box has grown on both sides of the origin.
C4_Witness ==
    /\ pc = "extents"
    /\ Len(program) = 3
    /\ index = 4
    /\ OnlyPositions
    /\ get_extents(extents) = <<<<-3, 0>>, <<10, 10>>>>

\* C5: in every state of the Extent Tracker the bounding box contains the
\* origin: min-corner <= (0,0) <= max-corner componentwise.
C5_BoxContainsOrigin == InBox(<<0, 0>>, extents)

\* C5 witness: the Extent Tracker has replayed an Arc, a SequenceEnd and a
\* Position drawn from the new relative origin.
C5_Witness ==
    /\ pc = "extents"
    /\ Len(program) = 3
    /\ index = 4
    /\ program[1].kind = "Circle"
    /\ program[2].kind = "VectorSequenceEnd"
    /\ program[3].kind = "VectorPosition"
    /\ extents.relative # <<0, 0>>
    /\ extents.min_extent # <<0, 0>>

\* C6: after the Extent Tracker handles an Arc with start_angle = 0 and
\* angle_range = 450, at whatever location it was, the bounding box holds
\* the east, north, west and south points of the circle of the arc's radius
\* whose centre is the location before the arc minus the start point on the
\* circle.
C6_FourCardinalExtrema ==
    (/\ ExtentsHandled("Circle")
     /\ program[index - 1].start_angle = 0
     /\ program[index - 1].angle_range = 450) =>
        LET r == program[index - 1].radius
            centre == CSub(prev_loc, rect(r, 0))
        IN  \A a \in {0, 90, 180, 270} :
                InBox(CAdd(centre, rect(r, a)), extents)

\* C6 witness: the arc has been handled away from the origin.
C6_Witness ==
    /\ ExtentsHandled("Circle")
    /\ program[index - 1].start_angle = 0
    /\ program[index - 1].angle_range = 450
    /\ prev_loc = <<10, 10>>
    /\ extents.min_extent = <<-4, 0>>
    /\ extents.max_extent = <<10, 17>>

IsPathChunk(c) == c.chunk = "path"

\* C7: the stream [AxisSelect(axes=(0,1)), Position(0,0), Position(10,0),
\* Position(10,10), SequenceEnd, End] written with the default style gives
\* exactly one on-colour path and one border path of the default border
\* colour, a canvas 700 + 2 * 50 = 800 wide, and the bounding box
\* (0,0)-(10,10).
C7_Scenario ==
    (program = ScenarioProgram /\ pc = "written" /\ params = DefaultParams) =>
        LET paths == SelectSeq(f, IsPathChunk)
        IN  /\ raised = ""
            /\ Len(paths) = 2
            /\ Cardinality({k \in 1..Len(paths) :
                               paths[k].color = DefaultParams.oncolor}) = 1
            /\ Cardinality({k \in 1..Len(paths) :
                               paths[k].color = DefaultParams.borders[1].color}) = 1
            /\ Cardinality({k \in 1..Len(Segments) :
                               ~IsBorder(Segments[k])}) = 1
            /\ f[1].chunk = "header"
            /\ f[1].width = RInt(800)
            /\ get_extents(extents) = <<<<0, 0>>, <<10, 10>>>>
            /\ executor.pattern.extents = <<<<0, 0>>, <<10, 10>>>>

\* C7 witness: the scenario has been written with the default style.
C7_Witness ==
    /\ program = ScenarioProgram
    /\ pc = "written"
    /\ params = DefaultParams
    /\ Len(f) = 4

\* The size S = max - min of the Pattern's bounding box.
PatternSize == CSub(executor.pattern.extents[2], executor.pattern.extents[1])

\* C8, as stated: whenever the bounding box is degenerate (S.x = 0 or
\* S.y = 0), writing the document ends in a failure and nothing is written
\* to the sink.
C8_DegenerateFails ==
    (pc = "written" /\ (Re(PatternSize) = 0 \/ Im(PatternSize) = 0)) =>
        (raised # "" /\ f = <<>>)

\* A SequenceReset lies between commands i and j.
ResetBetween(i, j) ==
    \E m \in (i + 1)..(j - 1) : program[m].kind = "ClearSequence"

\* C9, as stated: in every PathSegment pushed into the Pattern each
\* primitive after the first starts exactly where the previous primitive of
\* the segment ended.
C9_Contiguous ==
    \A s \in 1..Len(Segments) :
        \A k \in 2..Len(Segments[s].path) :
            Segments[s].path[k].start = Segments[s].path[k - 1].end

\* C9, amended: in every PathSegment pushed into the Pattern each primitive
\* after the first starts exactly where the previous primitive of the
\* segment ended, unless a SequenceReset was executed between the two
\* commands that drew them: then it starts at the start location (0,0).
C9_ContiguousButReset ==
    \A s \in 1..Len(Segments) :
        \A k \in 2..Len(Segments[s].path) :
            LET a == Segments[s].path[k - 1]
                b == Segments[s].path[k]
            IN  IF a.type # "Move" /\ ResetBetween(a.index, b.index)
                THEN b.start = executor.start_loc
                ELSE b.start = a.end

\* C9 witness: a pushed segment holds two drawn primitives with a
\* SequenceReset between them, the second not starting where the first ended.
C9_Witness ==
    \E s \in 1..Len(Segments) :
        \E k \in 2..Len(Segments[s].path) :
            /\ Segments[s].path[k - 1].type # "Move"
            /\ ResetBetween(Segments[s].path[k - 1].index,
                            Segments[s].path[k].index)
            /\ Segments[s].path[k].start = <<0, 0>>
            /\ Segments[s].path[k - 1].end # <<0, 0>>

\* The tool state when the Path Builder reaches command i: the last
\* ToolOn/ToolOff before it, on when there is none.
NeedleAt(i) ==
    LET toggles == {m \in 1..(i - 1) :
                       program[m].kind \in {"NeedleOff", "NeedleOn"}}
    IN  IF toggles = {} THEN TRUE
        ELSE program[Highest(toggles)].kind = "NeedleOn"

\* C10: every PathSegment the Path Builder pushed is tagged with the tool
\* state that was active while each of its primitives was drawn, and the
\* primitives of the open segment were all drawn in the current tool state
\* (so a toggle flushes before it updates the state).
C10_TaggedWithDrawingState ==
    /\ \A s \in 1..Len(Segments) :
          ~IsBorder(Segments[s]) =>
              \A k \in 1..Len(Segments[s].path) :
                  Segments[s].path[k].type # "Move" =>
                      NeedleAt(Segments[s].path[k].index)
                          = Segments[s].needle_state
    /\ \A k \in 1..Len(executor.svg_current_path) :
          NeedleAt(executor.svg_current_path[k].index) = executor.needle_on

\* C10 witness: run() has pushed a tool-on segment and a tool-off segment.
C10_Witness ==
    /\ pc = "ran"
    /\ \E s \in 1..Len(Segments) : Segments[s].needle_state
    /\ \E s \in 1..Len(Segments) : ~Segments[s].needle_state

\* Every PathSegment in the Pattern is non-empty and begins with a move-to.
SegmentsStartWithMove ==
    \A s \in 1..Len(Segments) :
        /\ Len(Segments[s].path) > 0
        /\ Segments[s].path[1].type = "Move"

\* The Path Builder is at a ToolOn/ToolOff that changes the tool state.
AtToolChange ==
    /\ index <= Len(program)
    /\ \/ program[index].kind = "NeedleOff" /\ executor.needle_on
       \/ program[index].kind = "NeedleOn" /\ ~executor.needle_on

\* The Path Builder is at the end of the program: at an End command, or
\* run() has replayed every command.
AtProgramEnd ==
    \/ index > Len(program)
    \/ index <= Len(program) /\ program[index].kind = "End"

\* The Path Builder is at a SequenceEnd.
AtSequenceEnd ==
    index <= Len(program) /\ program[index].kind = "VectorSequenceEnd"

\* This step of the Path Builder pushes a segment into the Pattern.
PathBuilderPushes ==
    /\ pc \in {"run", "ran"}
    /\ executor'.pattern.svg_elements # executor.pattern.svg_elements

\* The segment pushed is the open segment, which was not empty.
PushesOpenSegment ==
    /\ executor.svg_current_path # <<>>
    /\ Len(executor'.pattern.svg_elements) = Len(Segments) + 1
    /\ SubSeq(executor'.pattern.svg_elements, 1, Len(Segments)) = Segments
    /\ Tail(executor'.pattern.svg_elements[Len(Segments) + 1].path)
           = executor.svg_current_path

\* C11, as stated: in every state, borders applied or not, every
\* PathSegment in the Pattern is non-empty and begins with a move-to; and
\* the Path Builder pushes a segment only when the open segment is non-empty
\* and only when the tool state changes or the program ends.
C11_PushOnlyOnToolChangeOrEnd ==
    /\ []SegmentsStartWithMove
    /\ [][PathBuilderPushes =>
             (PushesOpenSegment /\ (AtToolChange \/ AtProgramEnd))]_vars

\* C11, amended: in every state, borders applied or not, every PathSegment
\* in the Pattern is non-empty and begins with a move-to; and the Path
\* Builder pushes a segment only when the open segment is non-empty and only
\* when the tool state changes, a SequenceEnd is executed, or the program
\* ends.
C11_PushOnlyOnFlush ==
    /\ []SegmentsStartWithMove
    /\ [][PathBuilderPushes =>
             (PushesOpenSegment /\
                 (AtToolChange \/ AtSequenceEnd \/ AtProgramEnd))]_vars

\* C11 witness: a SequenceEnd has just pushed the open segment, with the
\* tool state unchanged and commands still to come.
C11_Witness ==
    /\ pc = "run"
    /\ index > 1
    /\ index <= Len(program)
    /\ program[index - 1].kind = "VectorSequenceEnd"
    /\ Len(Segments) = 1
    /\ Segments[1].path[1].type = "Move"
    /\ Segments[1].path[Len(Segments[1].path)].index = index - 2

C13_CanvasSize ==
    (pc = "written" /\ raised = "") =>
        /\ f[1].chunk = "header"
        /\ f[1].width = RInt(params.width + 2 * params.margin[1])
        /\ f[1].height = RAdd(Rat(params.width * Im(PatternSize),
                                  Re(PatternSize)),
                              RInt(2 * params.margin[2]))
        /\ (/\ executor.pattern.extents = <<<<0, 0>>, <<1, 1>>>>
            /\ params.width = 100
            /\ params.margin = <<0, 0>>) =>
               (f[1].width = RInt(100) /\ f[1].height = RInt(100))

\* C13 witness: the unit square has been written with target width 100 and
\* zero margin.
C13_Witness ==
    /\ pc = "written"
    /\ program = UnitSquareProgram
    /\ executor.pattern.extents = <<<<0, 0>>, <<1, 1>>>>
    /\ params.width = 100
    /\ params.margin = <<0, 0>>
    /\ f[1].width = <<100, 1>>
    /\ f[1].height = <<100, 1>>

\* The Path Builder is at a ToolOn with the tool on, or at a ToolOff with
\* the tool off.
AtRedundantToolCommand ==
    /\ pc = "run"
    /\ index <= Len(program)
    /\ \/ program[index].kind = "NeedleOn" /\ executor.needle_on
       \/ program[index].kind = "NeedleOff" /\ ~executor.needle_on

\* C14: a ToolOn received while the tool is already on, or a ToolOff while
\* it is already off, changes nothing in the Path Builder: the open segment,
\* the Pattern's segment list, the tool state, the current location, the
\* axis mapping and the relative origin are unchanged (no flush happens).
C14_RedundantToolCommandIsNoOp ==
    [][AtRedundantToolCommand =>
          /\ executor'.svg_current_path = executor.svg_current_path
          /\ executor'.pattern = executor.pattern
          /\ executor'.needle_on = executor.needle_on
          /\ executor'.cur_loc = executor.cur_loc
          /\ executor'.axes = executor.axes
          /\ executor'.relative = executor.relative]_vars

\* C14 witness: a second ToolOff has been handled with a line in the open
\* segment, which is still open.
C14_Witness ==
    /\ pc = "run"
    /\ index = 4
    /\ program[1].kind = "NeedleOff"
    /\ program[2].kind = "VectorPosition"
    /\ program[3].kind = "NeedleOff"
    /\ Len(executor.svg_current_path) = 1
    /\ Segments = <<>>
    /\ ~executor.needle_on

\* The Extent Tracker after it has replayed the first k commands.
TrackerAfter(k) == ExtentsExecute(ExtentsInit, SubSeq(program, 1, k), 1)

\* C15: when the Extent Tracker and the Path Builder replay the same
\* command stream, after each command index their current location, axis
\* mapping and relative origin are equal.  (The first conjunct: the Extent
\* Tracker after k commands is TrackerAfter(k).)
C15_PassesMirror ==
    /\ pc = "extents" => extents = TrackerAfter(index - 1)
    /\ pc = "run" =>
          /\ executor.cur_loc = TrackerAfter(index - 1).cur_loc
          /\ executor.axes = TrackerAfter(index - 1).axes
          /\ executor.relative = TrackerAfter(index - 1).relative

\* C15 witness: the Path Builder has replayed a whole stream that swaps the
\* axes, moves to Position(10, 0) and ends the sequence there.
C15_Witness ==
    /\ pc = "run"
    /\ index = Len(program) + 1
    /\ executor.axes = <<1, 0>>
    /\ executor.relative = <<0, 10>>
    /\ executor.cur_loc = <<0, 10>>
    /\ extents.cur_loc = <<0, 10>>

\* The Path Builder after it has replayed the first k commands.
BuilderAfter(k) ==
    Execute(ExecutorInit(get_extents(extents)), SubSeq(program, 1, k), 1)

\* The last command of this kind among the first k, 0 when there is none.
LastOf(kind, k) ==
    LET S == {m \in 1..k : program[m].kind = kind}
    IN  IF S = {} THEN 0 ELSE Highest(S)

\* The axis mapping of the most recent AxisSelect among the first k
\* commands, the identity when there is none.
AxesAt(k) ==
    IF LastOf("VectorMotion", k) = 0 THEN <<0, 1>>
    ELSE program[LastOf("VectorMotion", k)].axes

\* project(d1, d2, axes)
Project(d1, d2, axes) ==
    <<IF axes[1] = 0 THEN d1 ELSE d2, IF axes[2] = 0 THEN d1 ELSE d2>>

\* The current location of the Extent Tracker, and of the Path Builder, at
\* the moment of the most recent SequenceEnd among the first k commands,
\* 0 when there is none.
TrackerOriginAt(k) ==
    IF LastOf("VectorSequenceEnd", k) = 0 THEN <<0, 0>>
    ELSE TrackerAfter(LastOf("VectorSequenceEnd", k) - 1).cur_loc

BuilderOriginAt(k) ==
    IF LastOf("VectorSequenceEnd", k) = 0 THEN <<0, 0>>
    ELSE BuilderAfter(LastOf("VectorSequenceEnd", k) - 1).cur_loc

\* The pass at hand has just handled a Position command.
PositionHandled ==
    /\ pc \in {"extents", "run"}
    /\ index > 1
    /\ program[index - 1].kind = "VectorPosition"

\* The relative origin of each pass is the location the pass was at when it
\* handled its most recent SequenceEnd, and a Position has moved the pass to
\* project(d1, d2, axes) + that relative origin.
RelativeOriginIsLastSequenceEnd ==
    /\ pc = "extents" =>
          /\ extents.relative = TrackerOriginAt(index - 1)
          /\ PositionHandled =>
                extents.cur_loc =
                    CAdd(Project(program[index - 1].d1, program[index - 1].d2,
                                 AxesAt(index - 1)),
                         TrackerOriginAt(index - 1))
    /\ pc = "run" =>
          /\ executor.relative = BuilderOriginAt(index - 1)
          /\ PositionHandled =>
                executor.cur_loc =
                    CAdd(Project(program[index - 1].d1, program[index - 1].d2,
                                 AxesAt(index - 1)),
                         BuilderOriginAt(index - 1))

\* A step that changes the relative origin of a pass is that pass handling
\* a SequenceEnd.
RelativeChangesAtSequenceEnd ==
    /\ extents'.relative # extents.relative => AtExtents("VectorSequenceEnd")
    /\ executor'.relative # executor.relative => AtRun("VectorSequenceEnd")

\* C16: in both passes SequenceEnd sets the relative origin to the current
\* location at that moment, every later Position(d1, d2) moves the current
\* location to project(d1, d2, axes) + that relative origin, project
\* selecting the arguments by the most recent AxisSelect, and the relative
\* origin changes at no command other than SequenceEnd.
C16_RelativeOrigin ==
    /\ []RelativeOriginIsLastSequenceEnd
    /\ [][RelativeChangesAtSequenceEnd]_vars

\* C16 witness: the Path Builder has handled Position(10, 10), SequenceEnd
\* and Position(-3, 4), which took it to (7, 14).
C16_Witness ==
    /\ pc = "run"
    /\ index = 4
    /\ program[2].kind = "VectorSequenceEnd"
    /\ program[3].kind = "VectorPosition"
    /\ executor.relative = <<10, 10>>
    /\ executor.cur_loc = <<7, 14>>

\* C17: SequenceReset sets the current location to the pass-local start (0)
\* and changes nothing else: in the Path Builder the open segment is not
\* flushed and keeps its primitives, and the Pattern, tool state, axis
\* mapping and relative origin are unchanged; in the Extent Tracker the
\* min/max corners, axis mapping and relative origin are unchanged.
C17_SequenceResetFrame ==
    [][/\ AtRun("ClearSequence") =>
             /\ executor'.cur_loc = <<0, 0>>
             /\ executor' = [executor EXCEPT !.cur_loc = <<0, 0>>]
             /\ executor'.svg_current_path = executor.svg_current_path
             /\ executor'.pattern = executor.pattern
             /\ extents' = extents
       /\ AtExtents("ClearSequence") =>
             /\ extents'.cur_loc = <<0, 0>>
             /\ extents' = [extents EXCEPT !.cur_loc = <<0, 0>>]
             /\ extents'.min_extent = extents.min_extent
             /\ extents'.max_extent = extents.max_extent
             /\ executor' = executor]_vars

\* C17 witness: the Path Builder has handled a SequenceReset away from the
\* start, with a primitive in the open segment, which is still open.
C17_Witness ==
    /\ pc = "run"
    /\ index > 1
    /\ program[index - 1].kind = "ClearSequence"
    /\ Len(executor.svg_current_path) > 0
    /\ executor.svg_current_path[Len(executor.svg_current_path)].end # <<0, 0>>
    /\ executor.cur_loc = <<0, 0>>
    /\ Segments = <<>>
    /\ extents.max_extent # <<0, 0>>

\* The largest magnitude of a group of components.
LargestIn(group) ==
    CHOOSE x \in {RAbs(group[k]) : k \in 1..Len(group)} :
        \A k \in 1..Len(group) : ~RLess(x, RAbs(group[k]))

\* The magnitude of v is strictly smaller than 1e-6 times the largest
\* magnitude of the group: abs(v) * 1e6 < largest.
Insignificant(v, group) ==
    RLess(Rat(Abs(v[1]) * 1000000, v[2]), LargestIn(group))

\* What condition_floats is to return for a group.
Cleaned(group) ==
    [k \in 1..Len(group) |->
        IF Insignificant(group[k], group) THEN <<0, 1>> ELSE group[k]]

\* C18: condition_floats replaces a component by exactly 0 if and only if
\* its magnitude is strictly smaller than 1e-6 times the largest magnitude
\* in the same group, and returns every other component unchanged; the four
\* matrix components form one group and the two translation components
\* another, so a component that is 1e-9 next to a co-computed 1.0 is
\* written as 0 and the largest component of a group is never zeroed.
C18_ConditionFloats ==
    /\ pc \in {"matrix", "translation"} =>
          /\ conditioned.m = Cleaned(floats.m)
          /\ \A k \in 1..4 :
                /\ (floats.m[k] = <<1, 1000000000>>
                        /\ \E j \in 1..4 : floats.m[j] = <<1, 1>>) =>
                      conditioned.m[k] = <<0, 1>>
                /\ RAbs(floats.m[k]) = LargestIn(floats.m) =>
                      conditioned.m[k] = floats.m[k]
    /\ pc = "translation" =>
          /\ conditioned.t = Cleaned(floats.t)
          /\ \A k \in 1..2 :
                /\ (floats.t[k] = <<1, 1000000000>>
                        /\ \E j \in 1..2 : floats.t[j] = <<1, 1>>) =>
                      conditioned.t[k] = <<0, 1>>
                /\ RAbs(floats.t[k]) = LargestIn(floats.t) =>
                      conditioned.t[k] = floats.t[k]

\* C18 witness: a matrix component of 1e-9 next to a 1.0 has been written
\* as 0 with the 1.0 kept, and a translation of 1e-9, the largest of its
\* own group, has been kept.
C18_Witness ==
    /\ pc = "translation"
    /\ floats.m = <<<<1, 1>>, <<1, 1000000000>>, <<0, 1>>, <<1, 1>>>>
    /\ conditioned.m = <<<<1, 1>>, <<0, 1>>, <<0, 1>>, <<1, 1>>>>
    /\ floats.t = <<<<1, 1000000000>>, <<0, 1>>>>
    /\ conditioned.t = floats.t

\* The primitive starts and ends inside the bounding box the Extent Tracker
\* computed.
PrimitiveInBox(p) == InBox(p.start, extents) /\ InBox(p.end, extents)

\* C19: the start point and the end point of every primitive the Path
\* Builder emits (lines from Position, arcs from Arc, the line drawn from
\* the reset location after a SequenceReset included) lie inside the
\* bounding box the Extent Tracker computed for the same stream.
C19_EndpointsInBox ==
    pc \in {"run", "ran", "got", "written", "rewritten"} =>
        /\ executor.pattern.extents = get_extents(extents)
        /\ \A s \in 1..Len(Segments) :
              ~IsBorder(Segments[s]) =>
                  \A k \in 1..Len(Segments[s].path) :
                      PrimitiveInBox(Segments[s].path[k])
        /\ \A k \in 1..Len(executor.svg_current_path) :
              PrimitiveInBox(executor.svg_current_path[k])

\* C19 witness: run() has pushed a segment in which an arc that ends away
\* from the origin is followed, after a SequenceReset, by a line from the
\* reset location to a point left of the origin.
C19_Witness ==
    /\ pc = "ran"
    /\ \E s \in 1..Len(Segments) :
          \E k \in 1..(Len(Segments[s].path) - 1) :
              /\ Segments[s].path[k].type = "Arc"
              /\ Segments[s].path[k].end # <<0, 0>>
              /\ Segments[s].path[k + 1].type = "Line"
              /\ Segments[s].path[k + 1].start = <<0, 0>>
              /\ Segments[s].path[k + 1].end = <<-3, 4>>

\* The primitives of the segments from segment k on, without the leading
\* move-to of each segment.
RECURSIVE Flatten(_, _)
Flatten(segs, k) ==
    IF k > Len(segs) THEN <<>>
    ELSE Tail(segs[k].path) \o Flatten(segs, k + 1)

\* The primitive the Position or Arc command at index k generates: from
\* where the stream has led before the command to where it leads after it.
Generated(k) ==
    LET command == program[k]
        from == TrackerAfter(k - 1).cur_loc
        to == TrackerAfter(k).cur_loc
    IN  IF command.kind = "VectorPosition"
        THEN Line(from, to, k)
        ELSE Arc(from, <<command.radius, command.radius>>,
                 Abs(command.angle_range) % 360 > 180,
                 command.angle_range > 0, to, k)

\* The primitives the Position and Arc commands generate, from command k
\* on, in stream order.
RECURSIVE GeneratedFrom(_)
GeneratedFrom(k) ==
    IF k > Len(program) THEN <<>>
    ELSE (IF program[k].kind \in {"VectorPosition", "Circle"}
          THEN <<Generated(k)>>
          ELSE <<>>) \o GeneratedFrom(k + 1)

\* C20: when QliSvgExecutor.run finishes, for every command stream (with or
\* without a final End command), the open segment is empty and the
\* primitives of the Pattern's segments, read in segment order and ignoring
\* the inserted leading move-to, are exactly the primitives generated by
\* the Position and Arc commands in stream order: no primitive is lost,
\* duplicated or reordered by flushing.
C20_NothingLostByFlushing ==
    pc = "ran" =>
        /\ executor.svg_current_path = <<>>
        /\ \A s \in 1..Len(Segments) :
              /\ Segments[s].path[1] = Move(Segments[s].path[2].start)
              /\ \A k \in 2..Len(Segments[s].path) :
                    Segments[s].path[k].type # "Move"
        /\ Flatten(Segments, 1) = GeneratedFrom(1)

\* C20 witness: run() has finished on a stream without a final End whose
\* two drawing commands, a tool change between them, are in two segments.
C20_Witness ==
    /\ pc = "ran"
    /\ Len(program) = 3
    /\ program[1].kind = "Circle"
    /\ program[2].kind = "NeedleOff"
    /\ program[3].kind = "VectorPosition"
    /\ Len(Segments) = 2
    /\ Len(Flatten(Segments, 1)) = 2
    /\ executor.svg_current_path = <<>>

====
